---- MODULE Spec2Model ----
(***************************************************************************)
(* OptimoV2: the iterative section-roster optimisation pipeline.           *)
(*                                                                         *)
(* Spec      the orchestrator PipelineRunner.run with the IterationManager, *)
(*           the UtilizationAnalyzer and the ActionProcessor; the MILP     *)
(*           subprocess and the registrar (decision oracle) are the        *)
(*           environment and are chosen nondeterministically.              *)
(* SpecMilp  the constraint set ScheduleOptimizer.add_constraints builds   *)
(*           over the variables of create_variables, and the files         *)
(*           save_solution extracts from any assignment satisfying it.     *)
(*                                                                         *)
(* Section ids are "S%03d" followed by k copies of "_B": [n, b].           *)
(* Scores are kept doubled (score2 = 2 * score) to stay in the integers.   *)
(* Utilisation comparisons enrolled/capacity < t are cross-multiplied.     *)
(***************************************************************************)
EXTENDS Integers, Sequences, FiniteSets, TLC

\* ------------------------------------------------------------------ bounds
MaxIterations == 2
MaxActions == 2
MaxSplits == 3
MaxStudents == 2
MaxItems == 2
PeriodsPerDay == 1
\* the lengths of the lists the registrar returns to the orchestrator
OracleListLengths == {0, 1}
\* how far capacity_violation may stay above the overage in a solution
ViolationSlack == {0, 1}

\* ------------------------------------------------------- program constants
MinEnrollmentToKeep == 5
MergeBuffer == 5
MinTargetPct == 70
MaxTargetPct == 110
MaxNoChangeLax == 1 + 1
MaxNoChange == 1
NumPeriodSlots == 8
SpedCap == 12
MaxChangesDefault == 10
SplitThresholdTenths == 1200
AddThresholdTenths == 1300
RemoveBelowTenths == 650

VARIABLES
  pc,                    \* position inside PipelineRunner.run
  max_iterations,        \* config['pipeline']['max_iterations']
  allow_fallback,        \* config['pipeline']['allow_heuristic_fallback']
  base,                  \* data/base/Sections_Information.csv
  i,                     \* loop variable of run
  hist,                  \* one record per prepared iteration: its workspace
  best_iteration,
  best_score,            \* <<>> is float('inf'), <<v>> is the doubled score v
  results,               \* doubled scores appended by run
  consecutive_no_change,
  actions,               \* the list decide_actions returned in this iteration
  changes_log,           \* the log apply_actions returned in this iteration
  current_iteration,     \* IterationManager.current_iteration
  final,                 \* the run's final/ directory
  metadata,              \* status field of the run's metadata.json
  ret,                   \* the dictionary run returned
  stop,                  \* why the loop ended
  failure,               \* a failure happened inside an iteration
  ap,                    \* one call of ActionProcessor.apply_actions
  orc,                   \* one call of RegistrarAgentGemini.decide_actions
  sm,                    \* create_registrar_summary on two solver outputs
  mpc,                   \* position of the MILP subprocess
  inst,                  \* the input tables the MILP subprocess loaded
  sol                    \* the solution files the MILP subprocess wrote

runVars == <<pc, max_iterations, allow_fallback, base, i, hist, best_iteration,
             best_score, results, consecutive_no_change, actions, changes_log,
             current_iteration, final, metadata, ret, stop, failure>>
applyVars == <<ap>>
milpVars == <<mpc, inst, sol>>
oracleVars == <<orc>>
summaryVars == <<sm>>
otherVars == <<applyVars, milpVars, oracleVars, summaryVars>>
vars == <<runVars, applyVars, milpVars, oracleVars, summaryVars>>

\* ------------------------------------------------------------ section ids
Sid(n) == [n |-> n, b |-> 0]
IdB(id) == [id EXCEPT !.b = id.b + 1]
GhostId == Sid(9)

Section(id, course, teacher, cap) ==
  [id |-> id, course |-> course, teacher |-> teacher, cap |-> cap]

RosterCourses == {"Math", "Art", "Gym"}
GhostCourse == "Latin"
\* the number of students requesting each course
Demand == [c \in RosterCourses |-> IF c = "Math" THEN 3 ELSE 1]

BaseRosters ==
  { << Section(Sid(1), "Math", "T1", 2),
       Section(Sid(2), "Math", "T1", 1),
       Section(Sid(3), "Art", "T2", 1) >>,
    << Section(Sid(1), "Math", "T1", 2),
       Section(Sid(2), "Math", "T1", 2),
       Section(Sid(3), "Art", "T2", 1) >>,
    << Section(Sid(1), "Math", "T1", 2) >> }

\* a roster of one-seat sections next to a larger section of Math
WideRoster ==
  << Section(Sid(1), "Math", "T1", 1),
     Section(Sid(2), "Math", "T1", 1),
     Section(Sid(3), "Math", "T1", 1),
     Section(Sid(4), "Art", "T2", 1),
     Section(Sid(5), "Gym", "T2", 1),
     Section(Sid(6), "Math", "T1", 4) >>

\* ---------------------------------------------------------------- rosters
Ids(r) == {r[k].id : k \in 1..Len(r)}
HasId(r, id) == \E k \in 1..Len(r) : r[k].id = id
FirstIndex(r, id) ==
  CHOOSE k \in 1..Len(r) : r[k].id = id /\ \A j \in 1..(k - 1) : r[j].id # id
FirstWithId(r, id) == r[FirstIndex(r, id)]
SetCap(r, id, c) ==
  [k \in 1..Len(r) |-> IF r[k].id = id THEN [r[k] EXCEPT !.cap = c] ELSE r[k]]
WithoutId(r, id) == SelectSeq(r, LAMBDA s : s.id # id)
OfCourse(r, c) == SelectSeq(r, LAMBDA s : s.course = c)
Distinct(r) == \A j, k \in 1..Len(r) : r[j].id = r[k].id => j = k
Max2(a, b) == IF a >= b THEN a ELSE b

\* enrollment_counts.get(section_id, 0)
Enrolled(e, id) == IF id \in DOMAIN e THEN e[id] ELSE 0

\* ------------------------------------------------------- registrar actions
Split(id) == [action |-> "SPLIT", section_id |-> id]
Merge(a, b) == [action |-> "MERGE", section_ids |-> <<a, b>>]
Add(c) == [action |-> "ADD", course |-> c]
Remove(id) == [action |-> "REMOVE", section_id |-> id]

\* --------------------------------------------------------- ActionProcessor
Outcome(r, ok) == [roster |-> r, success |-> ok, hang |-> FALSE, error |-> FALSE]
\* the handler raised before it assigned anything (KeyError on a missing key)
Raised(r) == [roster |-> r, success |-> FALSE, hang |-> FALSE, error |-> TRUE]

SplitSection(sections_df, action, enrollment_counts) ==
  LET section_id == action.section_id IN
  IF ~HasId(sections_df, section_id)
  THEN Outcome(sections_df, FALSE)
  ELSE LET section == FirstWithId(sections_df, section_id)
           original_capacity == section.cap
           new_capacity_1 == original_capacity \div 2
           new_capacity_2 == original_capacity - new_capacity_1
           new_section == [section EXCEPT !.id = IdB(section_id),
                                          !.cap = new_capacity_2]
       IN Outcome(Append(SetCap(sections_df, section_id, new_capacity_1),
                         new_section), TRUE)

MergeAnyCourse(sections_df, action, enrollment_counts) ==
  LET section_ids == action.section_ids IN
  IF Len(section_ids) # 2
  THEN Outcome(sections_df, FALSE)
  ELSE IF ~(HasId(sections_df, section_ids[1]) /\ HasId(sections_df, section_ids[2]))
  THEN Outcome(sections_df, FALSE)
  ELSE LET section1 == FirstWithId(sections_df, section_ids[1])
           section2 == FirstWithId(sections_df, section_ids[2])
           combined_enrollment == Enrolled(enrollment_counts, section_ids[1])
                                  + Enrolled(enrollment_counts, section_ids[2])
           new_capacity == Max2(Max2(section1.cap, section2.cap),
                                combined_enrollment + MergeBuffer)
       IN Outcome(WithoutId(SetCap(sections_df, section_ids[1], new_capacity),
                            section_ids[2]), TRUE)

MergeSections(sections_df, action, enrollment_counts) ==
  LET section_ids == action.section_ids IN
  IF Len(section_ids) # 2
  THEN Outcome(sections_df, FALSE)
  ELSE IF ~(HasId(sections_df, section_ids[1]) /\ HasId(sections_df, section_ids[2]))
  THEN Outcome(sections_df, FALSE)
  ELSE LET section1 == FirstWithId(sections_df, section_ids[1])
           section2 == FirstWithId(sections_df, section_ids[2])
       IN
       IF section1.course # section2.course
       THEN Outcome(sections_df, FALSE)
       ELSE LET combined_enrollment == Enrolled(enrollment_counts, section_ids[1])
                                       + Enrolled(enrollment_counts, section_ids[2])
                new_capacity == Max2(Max2(section1.cap, section2.cap),
                                     combined_enrollment + MergeBuffer)
            IN Outcome(WithoutId(SetCap(sections_df, section_ids[1], new_capacity),
                                 section_ids[2]), TRUE)

AddWithoutIdCheck(sections_df, action) ==
  LET course_sections == OfCourse(sections_df, action.course) IN
  IF Len(course_sections) = 0
  THEN Outcome(sections_df, FALSE)
  ELSE Outcome(Append(sections_df,
                      [course_sections[1] EXCEPT !.id = Sid(Len(sections_df) + 1)]), TRUE)

\* The while loop of _add_section assigns the same id on every pass: it ends
\* after at most one pass or never.
AddSection(sections_df, action) ==
  LET course_sections == OfCourse(sections_df, action.course) IN
  IF Len(course_sections) = 0
  THEN Outcome(sections_df, FALSE)
  ELSE LET template == course_sections[1]
           existing_ids == Ids(sections_df)
           first_id == Sid(Len(sections_df) + 1)
           retry_id == Sid(Len(sections_df) + Len(sections_df) + 1)
       IN
       IF first_id \notin existing_ids
       THEN Outcome(Append(sections_df, [template EXCEPT !.id = first_id]), TRUE)
       ELSE IF retry_id \notin existing_ids
       THEN Outcome(Append(sections_df, [template EXCEPT !.id = retry_id]), TRUE)
       ELSE [roster |-> sections_df, success |-> FALSE, hang |-> TRUE, error |-> FALSE]

RemoveUnchecked(sections_df, action, enrollment_counts) ==
  Outcome(WithoutId(sections_df, action.section_id), TRUE)

RemoveSection(sections_df, action, enrollment_counts) ==
  LET section_id == action.section_id
      enrolled == Enrolled(enrollment_counts, section_id)
      min_enrollment == MinEnrollmentToKeep
  IN
  IF enrolled >= min_enrollment
  THEN Outcome(sections_df, FALSE)
  ELSE Outcome(WithoutId(sections_df, section_id), TRUE)

ApplyOne(sections_df, action, enrollment_counts) ==
  CASE action.action = "SPLIT" ->
         IF "section_id" \in DOMAIN action
         THEN SplitSection(sections_df, action, enrollment_counts)
         ELSE Raised(sections_df)
    [] action.action = "MERGE" -> MergeSections(sections_df, action, enrollment_counts)
    [] action.action = "ADD" -> AddSection(sections_df, action)
    [] action.action = "REMOVE" -> RemoveSection(sections_df, action, enrollment_counts)
    [] OTHER -> Outcome(sections_df, FALSE)

ApplyActionsStopAtFailure(sections_df, acts, enrollment_counts) ==
  LET RECURSIVE Go(_, _)
      Go(k, st) ==
        IF k > Len(acts) THEN st
        ELSE LET res == ApplyOne(st.modified_sections, acts[k], enrollment_counts) IN
             IF res.hang THEN [st EXCEPT !.hang = TRUE]
             ELSE IF ~res.success THEN st
             ELSE Go(k + 1,
                     [modified_sections |-> res.roster,
                      actions_requested |-> st.actions_requested,
                      actions_applied |-> st.actions_applied + (IF res.success THEN 1 ELSE 0),
                      actions_failed |-> st.actions_failed + (IF res.success THEN 0 ELSE 1),
                      details |-> Append(st.details,
                                         [action |-> acts[k],
                                          status |-> "success"]),
                      trail |-> Append(st.trail, res.roster),
                      hang |-> FALSE])
  IN Go(1, [modified_sections |-> sections_df,
            actions_requested |-> Len(acts),
            actions_applied |-> 0,
            actions_failed |-> 0,
            details |-> <<>>,
            trail |-> <<sections_df>>,
            hang |-> FALSE])

\* apply_actions: the roster and the log after the whole list. trail[k] is the
\* roster before the k-th action and trail[k+1] the roster after it.
ApplyActions(sections_df, acts, enrollment_counts) ==
  LET RECURSIVE Go(_, _)
      Go(k, st) ==
        IF k > Len(acts) THEN st
        ELSE LET res == ApplyOne(st.modified_sections, acts[k], enrollment_counts) IN
             IF res.hang THEN [st EXCEPT !.hang = TRUE]
             ELSE Go(k + 1,
                     [modified_sections |-> res.roster,
                      actions_requested |-> st.actions_requested,
                      actions_applied |-> st.actions_applied + (IF res.success THEN 1 ELSE 0),
                      actions_failed |-> st.actions_failed + (IF res.success THEN 0 ELSE 1),
                      details |-> Append(st.details,
                                         [action |-> acts[k],
                                          status |-> IF res.error THEN "error"
                                                     ELSE IF res.success THEN "success"
                                                     ELSE "failed"]),
                      trail |-> Append(st.trail, res.roster),
                      hang |-> FALSE])
  IN Go(1, [modified_sections |-> sections_df,
            actions_requested |-> Len(acts),
            actions_applied |-> 0,
            actions_failed |-> 0,
            details |-> <<>>,
            trail |-> <<sections_df>>,
            hang |-> FALSE])

NoLog == [modified_sections |-> <<>>, actions_requested |-> 0, actions_applied |-> 0,
          actions_failed |-> 0, details |-> <<>>, trail |-> <<>>, hang |-> FALSE]

\* ----------------------------------------------------- UtilizationAnalyzer
\* utilization = enrolled / capacity if capacity > 0 else 0, compared with
\* min_target and max_target
UnderTarget(section, e) ==
  IF section.cap > 0
  THEN 100 * Enrolled(e, section.id) < MinTargetPct * section.cap
  ELSE TRUE
OverTarget(section, e) ==
  IF section.cap > 0
  THEN 100 * Enrolled(e, section.id) > MaxTargetPct * section.cap
  ELSE FALSE
InBand(section, e) == ~UnderTarget(section, e) /\ ~OverTarget(section, e)

AnalyzeSchedule(sections_df, e) ==
  [total_sections |-> Len(sections_df),
   under_target |->
     Cardinality({k \in 1..Len(sections_df) : UnderTarget(sections_df[k], e)}),
   optimal_range |->
     Cardinality({k \in 1..Len(sections_df) : InBand(sections_df[k], e)}),
   over_target |->
     Cardinality({k \in 1..Len(sections_df) : OverTarget(sections_df[k], e)})]

\* 2 * (under * 2 + over * 3 + optimal * -0.5)
CalculateOptimizationScore(analysis) ==
  4 * analysis.under_target + 6 * analysis.over_target - analysis.optimal_range

NeedsOnlyOver(analysis) == analysis.over_target > 0

NeedsOptimization(analysis) ==
  LET outside_target == analysis.under_target + analysis.over_target
  IN outside_target > 0

\* pd.read_csv of Student_Assignments.csv: save_solution writes the file from
\* a list of rows, and a file written from no rows has no header to parse.
TotalEnrolled(e) == Cardinality({id \in DOMAIN e : e[id] > 0})
Readable(files, e) == files /\ TotalEnrolled(e) > 0

\* ------------------------------------------------------ the MILP subprocess
\* Seen from the orchestrator: every student is placed in exactly one
\* section of each requested course that has sections (capacity is soft), so
\* the enrollment counts of a course's sections add up to its demand.
Splits(n, total) ==
  LET RECURSIVE Go(_, _)
      Go(m, t) == IF m = 0 THEN (IF t = 0 THEN {<<>>} ELSE {})
                  ELSE UNION {{<<k>> \o rest : rest \in Go(m - 1, t - k)} : k \in 0..t}
  IN Go(n, total)

\* A roster naming a section id twice counts its z variable twice in the
\* teacher-conflict sum and cannot be scheduled; a teacher cannot hold more
\* sections than there are periods.
Schedulable(r) ==
  /\ Distinct(r)
  /\ \A k \in 1..Len(r) :
       Cardinality({j \in 1..Len(r) : r[j].teacher = r[k].teacher}) <= NumPeriodSlots

NoEnrollment == [id \in {} |-> 0]

Enrollments(r) ==
  LET RECURSIVE Over(_)
      Over(cs) ==
        IF cs = {} THEN {NoEnrollment}
        ELSE LET c == CHOOSE x \in cs : TRUE
                 secs == OfCourse(r, c)
                 demand == IF Len(secs) = 0 THEN 0 ELSE Demand[c]
             IN { [id \in {secs[k].id : k \in 1..Len(secs)} |-> sp[FirstIndex(secs, id)]]
                  @@ rest : sp \in Splits(Len(secs), demand), rest \in Over(cs \ {c}) }
  IN IF Schedulable(r) THEN Over(RosterCourses) ELSE {}


\* -------------------------------------------------------- the registrar
ActionUniverse(r) ==
  LET ids == Ids(r) \cup {GhostId} IN
       {Split(x) : x \in ids} \cup {Remove(x) : x \in ids}
  \cup {Add(c) : c \in RosterCourses \cup {GhostCourse}}
  \cup {Merge(a, b) : a \in ids, b \in ids}

ActionLists(r, lengths) == UNION {[1..n -> ActionUniverse(r)] : n \in lengths}

\* a longer answer of the registrar: REMOVE of every one-seat section
ClearingLists(r) ==
  LET small == SelectSeq(r, LAMBDA section : section.cap = 1) IN
  IF small = <<>> THEN {} ELSE {[k \in 1..Len(small) |-> Remove(small[k].id)]}

\* ------------------------------------------------- IterationManager / run
NoFinal == [copied |-> FALSE, enroll |-> NoEnrollment]
NoRet == [status |-> "none", best_iteration |-> 0, best_score |-> <<>>,
          total_iterations |-> 0]

Workspace(input) ==
  [input |-> input, milp |-> "none", files |-> FALSE, enroll |-> NoEnrollment,
   scored |-> FALSE, score |-> 0, needs |-> FALSE, oracle |-> FALSE,
   proposed |-> -1, applied |-> 0, has_modified |-> FALSE, modified |-> <<>>]

Cur == hist[i + 1]
SetCur(field, value) == [hist EXCEPT ![i + 1][field] = value]

milpIdle == mpc = "off" /\ inst = <<>> /\ sol = <<>>
applyIdle == ap = <<>>
oracleIdle == orc = <<>>
summaryIdle == sm = <<>>

\* the wide roster is run with two iterations
Init ==
  /\ pc = "start"
  /\ base \in BaseRosters \cup {WideRoster}
  /\ max_iterations \in (IF base = WideRoster THEN {2} ELSE 1..MaxIterations)
  /\ allow_fallback \in BOOLEAN
  /\ i = 0
  /\ hist = <<>>
  /\ best_iteration = 0
  /\ best_score = <<>>
  /\ results = <<>>
  /\ consecutive_no_change = 0
  /\ actions = <<>>
  /\ changes_log = NoLog
  /\ current_iteration = -1
  /\ final = NoFinal
  /\ metadata = "none"
  /\ ret = NoRet
  /\ stop = "none"
  /\ failure = FALSE
  /\ applyIdle
  /\ milpIdle
  /\ oracleIdle
  /\ summaryIdle

\* start_new_run and the locals of run
StartRun ==
  /\ pc = "start"
  /\ metadata' = "started"
  /\ pc' = "prepare"
  /\ UNCHANGED <<max_iterations, allow_fallback, base, i, hist, best_iteration,
                 best_score, results, consecutive_no_change, actions, changes_log,
                 current_iteration, final, ret, stop, failure, otherVars>>

\* Sections_Information.csv of the workspace: the previous iteration's
\* modified_sections.csv when that file exists, the base file otherwise
IterationInput ==
  IF i > 0 /\ hist[i].has_modified THEN hist[i].modified ELSE base

\* prepare_iteration(i) or prepare_iteration(i, modified_sections_path)
PrepareIteration ==
  /\ pc = "prepare"
  /\ hist' = Append(hist, Workspace(IterationInput))
  /\ current_iteration' = i
  /\ actions' = <<>>
  /\ changes_log' = NoLog
  /\ pc' = "milp"
  /\ UNCHANGED <<max_iterations, allow_fallback, base, i, best_iteration, best_score,
                 results, consecutive_no_change, final, metadata, ret, stop, failure,
                 otherVars>>

\* _run_milp returned True: return code 0 and the four files exist
RunMilpOk ==
  /\ pc = "milp"
  /\ \E e \in Enrollments(Cur.input) :
       hist' = [hist EXCEPT ![i + 1].milp = "ok", ![i + 1].files = TRUE,
                            ![i + 1].enroll = e]
  /\ pc' = "analyze"
  /\ UNCHANGED <<max_iterations, allow_fallback, base, i, best_iteration, best_score,
                 results, consecutive_no_change, actions, changes_log,
                 current_iteration, final, metadata, ret, stop, failure, otherVars>>

\* _run_milp returned False: a file is missing (no solution was saved) or the
\* process failed before writing
RunMilpNoFiles ==
  /\ pc = "milp"
  /\ hist' = [hist EXCEPT ![i + 1].milp = "failed"]
  /\ failure' = TRUE
  /\ stop' = "milp_failed"
  /\ pc' = "final"
  /\ UNCHANGED <<max_iterations, allow_fallback, base, i, best_iteration, best_score,
                 results, consecutive_no_change, actions, changes_log,
                 current_iteration, final, metadata, ret, otherVars>>

\* _run_milp returned False on the return code: solve saved the solution it
\* had and raised again
RunMilpFailedAfterSave ==
  /\ pc = "milp"
  /\ \E e \in Enrollments(Cur.input) :
       hist' = [hist EXCEPT ![i + 1].milp = "failed", ![i + 1].files = TRUE,
                            ![i + 1].enroll = e]
  /\ failure' = TRUE
  /\ stop' = "milp_failed"
  /\ pc' = "final"
  /\ UNCHANGED <<max_iterations, allow_fallback, base, i, best_iteration, best_score,
                 results, consecutive_no_change, actions, changes_log,
                 current_iteration, final, metadata, ret, otherVars>>

\* the end of the loop body: the next value of range(max_iterations)
LoopNext ==
  /\ i' = i + 1
  /\ IF i + 1 < max_iterations
     THEN pc' = "prepare" /\ stop' = stop
     ELSE pc' = "final" /\ stop' = "exhausted"

BetterOrEqual(score, best) == best = <<>> \/ score <= best[1]
Better(score, best) == best = <<>> \/ score < best[1]

\* analyze_schedule, calculate_optimization_score, the best-result tracking,
\* save_iteration_results and the needs_optimization check
AnalyzeRaises ==
  /\ pc = "analyze"
  /\ ~Readable(Cur.files, Cur.enroll)
  /\ pc' = "raised"
  /\ failure' = TRUE
  /\ UNCHANGED <<max_iterations, allow_fallback, base, i, hist, best_iteration,
                 best_score, results, consecutive_no_change, actions, changes_log,
                 current_iteration, final, metadata, ret, stop, otherVars>>

Analyze ==
  /\ pc = "analyze"
  /\ Readable(Cur.files, Cur.enroll)
  /\ LET analysis == AnalyzeSchedule(Cur.input, Cur.enroll)
         score == CalculateOptimizationScore(analysis)
         needs == NeedsOptimization(analysis)
     IN /\ IF Better(score, best_score)
           THEN best_score' = <<score>> /\ best_iteration' = i
           ELSE UNCHANGED <<best_score, best_iteration>>
        /\ results' = Append(results, score)
        /\ hist' = [hist EXCEPT ![i + 1].scored = TRUE, ![i + 1].score = score,
                                ![i + 1].needs = needs]
        /\ IF ~needs
           THEN pc' = "final" /\ stop' = "converged" /\ i' = i
           ELSE IF i < max_iterations - 1
           THEN pc' = "decide" /\ stop' = stop /\ i' = i
           ELSE LoopNext
  /\ UNCHANGED <<max_iterations, allow_fallback, base, consecutive_no_change, actions,
                 changes_log, current_iteration, final, metadata, ret, failure,
                 otherVars>>

\* create_registrar_summary and decide_actions returning a list: the parsed
\* and validated answer of the model, or the heuristic's list when the call
\* failed and the fallback is enabled
Decide ==
  /\ pc = "decide"
  /\ \E list \in ActionLists(Cur.input, OracleListLengths) \cup ClearingLists(Cur.input) :
       /\ actions' = list
       /\ hist' = [hist EXCEPT ![i + 1].oracle = TRUE, ![i + 1].proposed = Len(list)]
  /\ pc' = "apply"
  /\ UNCHANGED <<max_iterations, allow_fallback, base, i, best_iteration, best_score,
                 results, consecutive_no_change, changes_log, current_iteration,
                 final, metadata, ret, stop, failure, otherVars>>

\* decide_actions raising: the call failed and the fallback is disabled
DecideRaises ==
  /\ pc = "decide"
  /\ ~allow_fallback
  /\ hist' = SetCur("oracle", TRUE)
  /\ failure' = TRUE
  /\ pc' = "raised"
  /\ UNCHANGED <<max_iterations, allow_fallback, base, i, best_iteration, best_score,
                 results, consecutive_no_change, actions, changes_log,
                 current_iteration, final, metadata, ret, stop, otherVars>>

\* "if actions:" with apply_actions, modified_sections.csv and the early stop
ApplySome ==
  /\ pc = "apply"
  /\ actions # <<>>
  /\ LET log == ApplyActions(Cur.input, actions, Cur.enroll) IN
     /\ changes_log' = log
     /\ IF log.hang
        THEN /\ pc' = "hung"
             /\ UNCHANGED <<hist, consecutive_no_change, i, stop>>
        ELSE /\ hist' = [hist EXCEPT ![i + 1].applied = log.actions_applied,
                                     ![i + 1].has_modified = TRUE,
                                     ![i + 1].modified = log.modified_sections]
             /\ IF log.actions_applied = 0
                THEN /\ consecutive_no_change' = consecutive_no_change + 1
                     /\ IF consecutive_no_change + 1 >= MaxNoChange
                        THEN pc' = "final" /\ stop' = "stalled" /\ i' = i
                        ELSE LoopNext
                ELSE /\ consecutive_no_change' = 0
                     /\ LoopNext
  /\ UNCHANGED <<max_iterations, allow_fallback, base, best_iteration, best_score,
                 results, actions, current_iteration, final, metadata, ret, failure,
                 otherVars>>

\* "else:" no actions suggested by the registrar
ApplyNone ==
  /\ pc = "apply"
  /\ actions = <<>>
  /\ consecutive_no_change' = consecutive_no_change + 1
  /\ IF consecutive_no_change + 1 >= MaxNoChange
     THEN pc' = "final" /\ stop' = "stalled" /\ i' = i
     ELSE LoopNext
  /\ UNCHANGED <<max_iterations, allow_fallback, base, hist, best_iteration,
                 best_score, results, actions, changes_log, current_iteration,
                 final, metadata, ret, failure, otherVars>>

\* after the loop: analyze_schedule on the best iteration's output raises when
\* its files are not there
FinalizeRaises ==
  /\ pc = "final"
  /\ ~Readable(hist[best_iteration + 1].files, hist[best_iteration + 1].enroll)
  /\ pc' = "raised"
  /\ UNCHANGED <<max_iterations, allow_fallback, base, i, hist, best_iteration,
                 best_score, results, consecutive_no_change, actions, changes_log,
                 current_iteration, final, metadata, ret, stop, failure, otherVars>>

\* the iteration whose output finalize_run copies
FinalSource == hist[best_iteration + 1]

\* after the loop: the final analysis, finalize_run(best_iteration) and return
Finalize ==
  /\ pc = "final"
  /\ Readable(hist[best_iteration + 1].files, hist[best_iteration + 1].enroll)
  /\ final' = [copied |-> TRUE, enroll |-> FinalSource.enroll]
  /\ metadata' = "completed"
  /\ ret' = [status |-> "completed", best_iteration |-> best_iteration,
             best_score |-> best_score, total_iterations |-> Len(results)]
  /\ pc' = "returned"
  /\ UNCHANGED <<max_iterations, allow_fallback, base, i, hist, best_iteration,
                 best_score, results, consecutive_no_change, actions, changes_log,
                 current_iteration, stop, failure, otherVars>>

Next ==
  \/ StartRun
  \/ PrepareIteration
  \/ RunMilpOk
  \/ RunMilpNoFiles
  \/ RunMilpFailedAfterSave
  \/ AnalyzeRaises
  \/ Analyze
  \/ Decide
  \/ DecideRaises
  \/ ApplySome
  \/ ApplyNone
  \/ FinalizeRaises
  \/ Finalize

Spec == Init /\ [][Next]_vars

\* ------------------------------------------- claims about PipelineRunner.run
Returned == pc = "returned"
Ended == pc \in {"returned", "raised"}
Scored(j) == j \in 1..Len(hist) /\ hist[j].scored
OutsideBand(j) ==
  \E k \in 1..Len(hist[j].input) :
     \/ UnderTarget(hist[j].input[k], hist[j].enroll)
     \/ OverTarget(hist[j].input[k], hist[j].enroll)

\* C5: with an oracle that returns no actions whenever it is asked, run ends
\* by returning, after at most max_iterations + 1 iterations, and the
\* best_iteration it returns is an iteration that was solved and scored.
StallingOracle == \A j \in 1..Len(hist) : hist[j].oracle => hist[j].proposed = 0
C5_StallingRunReturnsScoredBest ==
  (Ended /\ StallingOracle) =>
     /\ Returned
     /\ Len(hist) <= max_iterations + 1
     /\ Scored(ret.best_iteration + 1)

\* C6: when run returns after scoring at least one iteration, best_iteration
\* is the earliest iteration with the minimum score of all scored iterations,
\* best_score is that score, and the final directory holds that iteration's
\* output, however the loop stopped (converged, stalled, exhausted).
C6_BestIsEarliestMinimum ==
  (Returned /\ results # <<>>) =>
     LET b == ret.best_iteration + 1 IN
     /\ Scored(b)
     /\ \A j \in 1..Len(hist) : Scored(j) => hist[b].score <= hist[j].score
     /\ \A j \in 1..(b - 1) : Scored(j) => hist[j].score > hist[b].score
     /\ ret.best_score = <<hist[b].score>>
     /\ final = [copied |-> TRUE, enroll |-> hist[b].enroll]
C6_TieKeepsEarliest ==
  /\ Returned
  /\ stop = "exhausted"
  /\ Len(results) = 2
  /\ hist[1].score = hist[2].score
  /\ hist[1].enroll # hist[2].enroll
  /\ ret.best_iteration = 0

\* C7: run never raises after a failure inside an iteration.
C7_RunNeverRaises == ~(failure /\ pc = "raised")

\* C8: the status run returns and the status written to the metadata name the
\* terminal state the run reached: converged, stalled, exhausted or failed.
TerminalState ==
  CASE stop = "converged" -> "converged"
    [] stop = "stalled" -> "stalled"
    [] stop = "exhausted" -> "exhausted"
    [] OTHER -> "failed"
C8_StatusNamesTerminalState ==
  Returned => (ret.status = TerminalState /\ metadata = TerminalState)

\* C9: an iteration needs optimisation exactly when one of its sections is
\* outside the target band; when it does not, the oracle is not invoked, no
\* action is applied and no later iteration is prepared.
C9_ConvergedStopsThere ==
  \A j \in 1..Len(hist) : Scored(j) =>
     /\ hist[j].needs <=> OutsideBand(j)
     /\ ~hist[j].needs =>
          /\ ~hist[j].oracle
          /\ hist[j].applied = 0
          /\ ~hist[j].has_modified
          /\ j = Len(hist)
          /\ pc \in {"final", "returned", "raised"}
C9_ConvergedRun ==
  /\ Returned
  /\ stop = "converged"
  /\ Len(hist) = 2
  /\ ~OutsideBand(2)

\* C10: an iteration in which the oracle was asked and zero actions were
\* applied is the last one; every iteration that has a successor applied at
\* least one action and its successor was prepared on the mutated roster; and
\* after an iteration applied an action, the next one is started.
C10_StallStopsAndChangeContinues ==
  /\ \A j \in 1..Len(hist) :
       (hist[j].oracle /\ hist[j].applied = 0) => j = Len(hist)
  /\ \A j \in 1..(Len(hist) - 1) :
       /\ hist[j].applied > 0
       /\ hist[j].has_modified
       /\ hist[j + 1].input = hist[j].modified
  /\ (hist # <<>> /\ hist[Len(hist)].applied > 0) =>
       (pc = "prepare" /\ i = Len(hist) /\ i < max_iterations)
C10_AllProposedFailed ==
  /\ Returned
  /\ stop = "stalled"
  /\ hist[Len(hist)].proposed > 0
  /\ hist[Len(hist)].applied = 0

\* ------------------------------------------- ActionProcessor.apply_actions
\* One call of apply_actions on a roster, a list of actions and the enrollment
\* counts read from the iteration's Student_Assignments.csv.
ApplyRosters ==
  { << Section(Sid(1), "Math", "T1", 7),
       Section(Sid(2), "Math", "T1", 4),
       Section(Sid(3), "Art", "T2", 3) >>,
    << Section(Sid(1), "Math", "T1", 7),
       Section(Sid(2), "Art", "T2", 3) >>,
    << Section(Sid(1), "Math", "T1", 6) >>,
    << Section(Sid(3), "Math", "T1", 7),
       Section(Sid(5), "Art", "T2", 3) >> }
EnrollmentCounts == {0, MinEnrollmentToKeep - 1, MinEnrollmentToKeep}

\* apply_actions takes any list of dicts: also a SPLIT without its section_id
MalformedSplit == [action |-> "SPLIT"]
ApplyActionLists(r, lengths) ==
  UNION {[1..n -> ActionUniverse(r) \cup {MalformedSplit}] : n \in lengths}
\* longer lists of SPLITs only, of the sections and of the halves they leave
SplitChains(r, lengths) ==
  UNION {[1..n -> {Split(x) : x \in Ids(r) \cup {IdB(y) : y \in Ids(r)}}] : n \in lengths}

runIdle ==
  /\ pc = "off" /\ max_iterations = 0 /\ allow_fallback = FALSE /\ base = <<>>
  /\ i = 0 /\ hist = <<>> /\ best_iteration = 0 /\ best_score = <<>>
  /\ results = <<>> /\ consecutive_no_change = 0 /\ actions = <<>>
  /\ changes_log = NoLog /\ current_iteration = -1 /\ final = NoFinal
  /\ metadata = "none" /\ ret = NoRet /\ stop = "none" /\ failure = FALSE

InitApply ==
  /\ \E r \in ApplyRosters :
       \E e \in [Ids(r) -> EnrollmentCounts] :
          \E list \in ApplyActionLists(r, 0..MaxActions) \cup SplitChains(r, 0..MaxSplits) :
             ap = [state |-> "called", sections_df |-> r, enrollment_counts |-> e,
                   actions |-> list, log |-> NoLog]
  /\ runIdle
  /\ milpIdle
  /\ oracleIdle
  /\ summaryIdle

ApplyCall ==
  /\ ap.state = "called"
  /\ LET log == ApplyActions(ap.sections_df, ap.actions, ap.enrollment_counts)
     IN ap' = [ap EXCEPT !.state = IF log.hang THEN "hung" ELSE "returned",
                         !.log = log]
  /\ UNCHANGED <<runVars, milpVars, oracleVars, summaryVars>>

NextApply == ApplyCall

SpecApply == InitApply /\ [][NextApply]_vars

ApplyReturned == ap # <<>> /\ ap.state = "returned"
RosterBefore(k) == ap.log.trail[k]
RosterAfter(k) == ap.log.trail[k + 1]

\* C3: a REMOVE of a section whose enrollment count is at least
\* min_enrollment_to_keep is recorded as failed and leaves the roster as it
\* was, the section still in it.
C3_RemoveKeepsEnrolledSection ==
  ApplyReturned =>
    \A k \in 1..Len(ap.actions) :
       LET a == ap.actions[k] IN
       (a.action = "REMOVE"
          /\ Enrolled(ap.enrollment_counts, a.section_id) >= MinEnrollmentToKeep) =>
            /\ ap.log.details[k].status = "failed"
            /\ RosterAfter(k) = RosterBefore(k)
C3_RemoveRejected ==
  /\ ApplyReturned
  /\ \E k \in 1..Len(ap.actions) :
       /\ ap.actions[k].action = "REMOVE"
       /\ HasId(RosterBefore(k), ap.actions[k].section_id)
       /\ Enrolled(ap.enrollment_counts, ap.actions[k].section_id) >= MinEnrollmentToKeep
       /\ ap.log.details[k].status = "failed"
       /\ ap.log.actions_failed >= 1

\* C4: a MERGE of two sections of different courses, or naming an id that is
\* not in the roster, is recorded as failed and leaves the roster as it was.
MergeMismatch(r, a) ==
  \/ ~HasId(r, a.section_ids[1])
  \/ ~HasId(r, a.section_ids[2])
  \/ FirstWithId(r, a.section_ids[1]).course # FirstWithId(r, a.section_ids[2]).course
C4_MergeNeedsSameCourse ==
  ApplyReturned =>
    \A k \in 1..Len(ap.actions) :
       LET a == ap.actions[k] IN
       (a.action = "MERGE" /\ MergeMismatch(RosterBefore(k), a)) =>
            /\ ap.log.details[k].status = "failed"
            /\ RosterAfter(k) = RosterBefore(k)
C4_CrossCourseMergeRejected ==
  /\ ApplyReturned
  /\ \E k \in 1..Len(ap.actions) :
       LET a == ap.actions[k] IN
       /\ a.action = "MERGE"
       /\ HasId(RosterBefore(k), a.section_ids[1])
       /\ HasId(RosterBefore(k), a.section_ids[2])
       /\ FirstWithId(RosterBefore(k), a.section_ids[1]).course
            # FirstWithId(RosterBefore(k), a.section_ids[2]).course
       /\ ap.log.details[k].status = "failed"

\* ------------------------------------------ the MILP of ScheduleOptimizer
\* Student ids are 1..MaxStudents. The period list of the program is
\* R1..R4, G1..G4; the model keeps the first PeriodsPerDay of each day.
RedPeriods == <<"R1", "R2", "R3", "R4">>
GoldPeriods == <<"G1", "G2", "G3", "G4">>
periods ==
  {RedPeriods[k] : k \in 1..PeriodsPerDay} \cup {GoldPeriods[k] : k \in 1..PeriodsPerDay}

course_period_restrictions ==
  [c \in {"Medical Career", "Heroes Teach"} |->
     IF c = "Medical Career" THEN {"R1", "G1"} ELSE {"R2", "G2"}]

get_allowed_periods(course_id) ==
  IF course_id \in DOMAIN course_period_restrictions
  THEN course_period_restrictions[course_id]
  ELSE periods

\* the Preferred Sections lists a student can have
PreferenceLists == {{"Math"}, {"Math", "Art"}, {"Art", "Medical Career"}}
KnownTeachers == {{"T1", "T2"}, {"T2"}}
MilpRosters ==
  { << Section(Sid(1), "Math", "T1", 1),
       Section(Sid(2), "Math", "T1", 1) >>,
    << Section(Sid(1), "Math", "T1", 1),
       Section(Sid(2), "Art", "T1", 1) >>,
    << Section(Sid(1), "Math", "T1", 1),
       Section(Sid(2), "Math", "T2", 1),
       Section(Sid(3), "Art", "T2", 2) >>,
    << Section(Sid(1), "Math", "T2", 1),
       Section(Sid(2), "Medical Career", "T2", 1) >>,
    << Section(Sid(1), "Art", "T1", 1),
       Section(Sid(2), "Medical Career", "T2", 1),
       Section(Sid(3), "Medical Career", "T2", 1),
       Section(Sid(4), "Medical Career", "T2", 1) >> }

\* Teacher_unavailability.csv: absent or empty, or one period of one teacher
NoUnavailability == [t \in {} |-> {}]
TeacherUnavailability == {NoUnavailability, ("T1" :> {"R1"})}

\* the tables ScheduleDataLoader.load_all returned; the unavailability table
\* names teachers of the teacher table
MilpInstances ==
  { in \in { [students |-> 1..MaxStudents, sped |-> sp, prefs |-> pr, sections |-> r,
              teachers |-> t, teacher_unavailability |-> u] :
               sp \in {{}, {1}},
               pr \in [1..MaxStudents -> PreferenceLists],
               r \in MilpRosters, t \in KnownTeachers, u \in TeacherUnavailability } :
      DOMAIN in.teacher_unavailability \subseteq in.teachers }

course_to_sections(sections, course_id) ==
  {sections[k].id : k \in {j \in 1..Len(sections) : sections[j].course = course_id}}
SectionCourses(sections) == {sections[k].course : k \in 1..Len(sections)}
TeacherSections(sections, teacher_id) ==
  {sections[k].id : k \in {j \in 1..Len(sections) : sections[j].teacher = teacher_id}}

\* create_variables: the keys of x, z and y
XKeys(in) ==
  UNION {{<<s, id>> : id \in UNION {course_to_sections(in.sections, c) :
                                      c \in in.prefs[s] \cap SectionCourses(in.sections)}} :
         s \in in.students}
ZKeys(in) ==
  UNION {{<<in.sections[k].id, p>> : p \in get_allowed_periods(in.sections[k].course)} :
         k \in 1..Len(in.sections)}
YKeys(in) ==
  {<<xk[1], xk[2], p>> : xk \in XKeys(in), p \in periods}
  \cap {<<s, zk[1], zk[2]>> : s \in in.students, zk \in ZKeys(in)}

\* add_constraints, one definition per numbered block; "(k) in self.x" is
\* k \in DOMAIN x
OnePeriodPerSection(in, z) ==
  \A id \in Ids(in.sections) :
     LET valid_periods == {p \in periods : <<id, p>> \in DOMAIN z} IN
     valid_periods # {} => Cardinality({p \in valid_periods : z[<<id, p>>] = 1}) = 1

HardCapacity(in, x, v) ==
  \A k \in 1..Len(in.sections) :
     Cardinality({s \in in.students : <<s, in.sections[k].id>> \in DOMAIN x
                                      /\ x[<<s, in.sections[k].id>>] = 1})
       <= in.sections[k].cap

SoftCapacity(in, x, v) ==
  \A k \in 1..Len(in.sections) :
     Cardinality({s \in in.students : <<s, in.sections[k].id>> \in DOMAIN x
                                      /\ x[<<s, in.sections[k].id>>] = 1})
       <= in.sections[k].cap + v[in.sections[k].id]

HardCourseRequirement(in, x) ==
  \A s \in in.students : \A course_id \in in.prefs[s] :
     course_id \in SectionCourses(in.sections) =>
       Cardinality({id \in course_to_sections(in.sections, course_id) :
                      <<s, id>> \in DOMAIN x /\ x[<<s, id>>] = 1}) = 1

TeacherConflicts(in, z) ==
  \A teacher_id \in in.teachers : \A p \in periods :
     Cardinality({id \in TeacherSections(in.sections, teacher_id) :
                    <<id, p>> \in DOMAIN z /\ z[<<id, p>>] = 1}) <= 1

StudentPeriodConflicts(in, y) ==
  \A s \in in.students : \A p \in periods :
     Cardinality({id \in Ids(in.sections) :
                    <<s, id, p>> \in DOMAIN y /\ y[<<s, id, p>>] = 1}) <= 1

\* y <= x, y <= z and y >= x + z - 1 leave a binary y exactly one value
Linked(xv, zv) == CHOOSE b \in 0..1 : b <= xv /\ b <= zv /\ b >= xv + zv - 1

SpedDistribution(in, x) ==
  \A id \in Ids(in.sections) :
     Cardinality({s \in in.sped : <<s, id>> \in DOMAIN x /\ x[<<s, id>>] = 1}) <= SpedCap

\* the y the linking constraints force for given x and z
LinkedY(ykeys, x, z) ==
  [k \in ykeys |-> Linked(x[<<k[1], k[2]>>], z[<<k[2], k[3]>>])]

\* what soft_capacity asks of capacity_violation at least
Overage(in, x, id) ==
  Max2(0, Cardinality({s \in in.students : <<s, id>> \in DOMAIN x /\ x[<<s, id>>] = 1})
          - FirstWithId(in.sections, id).cap)

\* The assignments the solver can hold as a solution: those satisfying every
\* constraint. capacity_violation has no upper bound; the objective pushes it
\* down to the overage, and a solution taken at the solution or time limit
\* may keep it above by ViolationSlack.
Solutions(in) ==
  LET ykeys == YKeys(in)
      xs == {x \in [XKeys(in) -> 0..1] :
               HardCourseRequirement(in, x) /\ SpedDistribution(in, x)}
      zs == {z \in [ZKeys(in) -> 0..1] :
               OnePeriodPerSection(in, z) /\ TeacherConflicts(in, z)}
  IN UNION {UNION {{[x |-> x, z |-> z, y |-> LinkedY(ykeys, x, z),
                     capacity_violation |-> v] :
                      v \in {vv \in [Ids(in.sections) -> 0..(MaxStudents + 1)] :
                               /\ SoftCapacity(in, x, vv)
                               /\ \A id \in Ids(in.sections) :
                                    vv[id] - Overage(in, x, id) \in ViolationSlack}} :
                   z \in {zz \in zs : StudentPeriodConflicts(in, LinkedY(ykeys, x, zz))}} :
            x \in xs}

\* some assignment satisfies every constraint of add_constraints
Feasible(in) ==
  LET ykeys == YKeys(in) IN
  \E x \in [XKeys(in) -> 0..1] :
     /\ HardCourseRequirement(in, x)
     /\ SpedDistribution(in, x)
     /\ \E v \in [Ids(in.sections) -> 0..(MaxStudents + 1)] : SoftCapacity(in, x, v)
     /\ \E z \in [ZKeys(in) -> 0..1] :
          /\ OnePeriodPerSection(in, z)
          /\ TeacherConflicts(in, z)
          /\ StudentPeriodConflicts(in, LinkedY(ykeys, x, z))

\* save_solution: the four files
SaveSolution(in, a) ==
  [master_schedule |-> {k \in DOMAIN a.z : a.z[k] = 1},
   student_assignments |-> {k \in DOMAIN a.x : a.x[k] = 1},
   teacher_schedule |->
     {<<FirstWithId(in.sections, k[1]).teacher, k[1], k[2]>> :
        k \in {q \in DOMAIN a.z : a.z[q] = 1}},
   constraint_violations |->
     [sections_over_capacity |->
        Cardinality({id \in Ids(in.sections) : a.capacity_violation[id] > 0})]]

InitMilp ==
  /\ mpc = "built"
  /\ inst \in MilpInstances
  /\ sol = <<>>
  /\ runIdle
  /\ applyIdle
  /\ oracleIdle
  /\ summaryIdle

\* optimize ended with a solution and save_solution wrote the files
SolveSaves ==
  /\ mpc = "built"
  /\ \E a \in Solutions(inst) : sol' = SaveSolution(inst, a)
  /\ mpc' = "saved"
  /\ UNCHANGED <<inst, runVars, applyVars, oracleVars, summaryVars>>

\* optimize ended without a solution: nothing is written
SolveNoSolution ==
  /\ mpc = "built"
  /\ mpc' = "no_solution"
  /\ UNCHANGED <<inst, sol, runVars, applyVars, oracleVars, summaryVars>>

\* optimize ended INFEASIBLE: no assignment satisfies the constraints
SolveInfeasible ==
  /\ mpc = "built"
  /\ ~Feasible(inst)
  /\ mpc' = "infeasible"
  /\ UNCHANGED <<inst, sol, runVars, applyVars, oracleVars, summaryVars>>

NextMilp ==
  \/ SolveSaves
  \/ SolveNoSolution
  \/ SolveInfeasible

SpecMilp == InitMilp /\ [][NextMilp]_vars

Saved == mpc = "saved"

\* C1: in every saved solution each student is assigned to exactly one
\* section of each course listed in the student's preferences.
C1_OneSectionPerRequestedCourse ==
  Saved =>
    \A s \in inst.students : \A c \in inst.prefs[s] :
       Cardinality({id \in course_to_sections(inst.sections, c) :
                      <<s, id>> \in sol.student_assignments}) = 1

\* C2: in every saved solution no teacher named in the roster has two
\* sections in the same period, and no student is assigned to two sections
\* scheduled in the same period.
RosterTeachers == {inst.sections[k].teacher : k \in 1..Len(inst.sections)}
C2_NoPeriodConflicts ==
  Saved =>
    /\ \A t \in RosterTeachers : \A p \in periods :
         Cardinality({id \in TeacherSections(inst.sections, t) :
                        <<id, p>> \in sol.master_schedule}) <= 1
    /\ \A s \in inst.students : \A p \in periods :
         Cardinality({id \in Ids(inst.sections) :
                        /\ <<s, id>> \in sol.student_assignments
                        /\ <<id, p>> \in sol.master_schedule}) <= 1
\* the student half of C2 on its own
StudentsFreeOfConflicts ==
  Saved =>
    \A s \in inst.students : \A p \in periods :
       Cardinality({id \in Ids(inst.sections) :
                      /\ <<s, id>> \in sol.student_assignments
                      /\ <<id, p>> \in sol.master_schedule}) <= 1

\* every course some student requests has a section
AllRequestsMatched(in) ==
  \A s \in in.students : in.prefs[s] \subseteq SectionCourses(in.sections)

\* some assignment satisfies every constraint other than capacity
HardFeasible(in) ==
  LET ykeys == YKeys(in) IN
  \E x \in [XKeys(in) -> 0..1] :
     /\ HardCourseRequirement(in, x)
     /\ SpedDistribution(in, x)
     /\ \E z \in [ZKeys(in) -> 0..1] :
          /\ OnePeriodPerSection(in, z)
          /\ TeacherConflicts(in, z)
          /\ StudentPeriodConflicts(in, LinkedY(ykeys, x, z))

\* C19 as stated: when every requested course has a section, the solver
\* never ends infeasible.
C19_NeverInfeasible ==
  (mpc # "off" /\ AllRequestsMatched(inst)) => mpc # "infeasible"

\* C19 amended: the capacity constraint never makes the constraint set
\* infeasible; the solver ends infeasible only when no assignment satisfies
\* the other constraints (one period per section, hard course satisfaction,
\* teacher and student conflicts, linking, SPED cap).
C19_InfeasibleOnlyByHardConstraints ==
  mpc = "infeasible" => ~HardFeasible(inst)

C19_InfeasibleWithEveryRequestMatched ==
  /\ mpc = "infeasible"
  /\ AllRequestsMatched(inst)
  /\ ~HardFeasible(inst)

\* C20: when a student requests a course that has no section, the model is
\* never built and solved: construction fails before any solve.
C20_UnmatchedRequestNeverSolved ==
  (mpc # "off" /\ ~AllRequestsMatched(inst)) =>
     mpc \notin {"saved", "no_solution", "infeasible"}


\* ------------------------------------ RegistrarAgentGemini.decide_actions
\* The response text as json.loads sees it: not JSON, JSON that is not a
\* list, or a list of items. An item is a JSON object (its fields) or some
\* other JSON value.
Obj(fields) == [kind |-> "object", fields |-> fields]
NonObject == [kind |-> "scalar", fields |-> ("value" :> "x")]
IdList(ids) == [type |-> "list", ids |-> ids]
NotAList(type) == [type |-> type, ids |-> <<>>]

ItemUniverse ==
  { Obj(("action" :> "SPLIT") @@ ("section_id" :> Sid(1)) @@ ("reason" :> "r")),
    Obj(("action" :> "SPLIT") @@ ("section_id" :> Sid(1))),
    Obj(("action" :> "REMOVE") @@ ("section_id" :> Sid(2)) @@ ("reason" :> "r")),
    Obj(("action" :> "ADD") @@ ("course" :> "Math") @@ ("reason" :> "r")),
    Obj(("action" :> "ADD") @@ ("reason" :> "r")),
    Obj(("action" :> "MERGE") @@ ("section_ids" :> IdList(<<Sid(1), Sid(2)>>))
          @@ ("reason" :> "r")),
    Obj(("action" :> "MERGE") @@ ("section_ids" :> IdList(<<Sid(1)>>))
          @@ ("reason" :> "r")),
    Obj(("action" :> "MERGE") @@ ("section_ids" :> NotAList("string"))
          @@ ("reason" :> "r")),
    Obj(("action" :> "MERGE") @@ ("section_ids" :> NotAList("number"))
          @@ ("reason" :> "r")),
    Obj(("action" :> "DELETE") @@ ("section_id" :> Sid(1)) @@ ("reason" :> "r")),
    Obj(("reason" :> "r")),
    NonObject }

NotJson == [json |-> FALSE, is_list |-> FALSE, items |-> <<>>]
JsonNotList == [json |-> TRUE, is_list |-> FALSE, items |-> <<>>]
JsonList(items) == [json |-> TRUE, is_list |-> TRUE, items |-> items]
ResponseTexts ==
  {NotJson, JsonNotList}
  \cup {JsonList(items) : items \in UNION {[1..n -> ItemUniverse] : n \in 0..MaxItems}}

required_fields ==
  [t \in {"SPLIT", "MERGE", "ADD", "REMOVE"} |->
     CASE t = "SPLIT" -> {"action", "section_id", "reason"}
       [] t = "MERGE" -> {"action", "section_ids", "reason"}
       [] t = "ADD" -> {"action", "course", "reason"}
       [] t = "REMOVE" -> {"action", "section_id", "reason"}]

\* _validate_action: "valid", "invalid", or "raises" where the Python raises
\* (action.get on a value that is no dict; len() of a number in the message
\* printed for a MERGE whose section_ids is no list)
ValidateAction(action) ==
  IF action.kind # "object" THEN "raises"
  ELSE LET f == action.fields
           action_type == IF "action" \in DOMAIN f THEN f["action"] ELSE "None"
       IN
       IF action_type \notin DOMAIN required_fields THEN "invalid"
       ELSE IF \E field \in required_fields[action_type] : field \notin DOMAIN f
       THEN "invalid"
       ELSE IF action_type = "MERGE"
       THEN LET section_ids == f["section_ids"] IN
            IF section_ids.type = "list"
            THEN (IF Len(section_ids.ids) # 2 THEN "invalid" ELSE "valid")
            ELSE IF section_ids.type = "string" THEN "invalid"
            ELSE "raises"
       ELSE "valid"

FirstN(seq, n) == SubSeq(seq, 1, IF Len(seq) < n THEN Len(seq) ELSE n)

Parsed(list) == [raised |-> FALSE, actions |-> list]
ParseRaised == [raised |-> TRUE, actions |-> <<>>]

ParseActionsUnguarded(response_text, max_changes) ==
  IF ~response_text.json THEN Parsed(<<>>)
  ELSE IF ~response_text.is_list THEN Parsed(<<>>)
  ELSE LET items == response_text.items IN
       IF \E k \in 1..Len(items) : ValidateAction(items[k]) = "raises"
       THEN ParseRaised
       ELSE Parsed(FirstN(SelectSeq(items, LAMBDA a : ValidateAction(a) = "valid"),
                          max_changes))

\* _parse_actions: JSONDecodeError and every other exception give []
ParseActions(response_text, max_changes) ==
  IF ~response_text.json THEN Parsed(<<>>)
  ELSE IF ~response_text.is_list THEN Parsed(<<>>)
  ELSE LET items == response_text.items IN
       IF \E k \in 1..Len(items) : ValidateAction(items[k]) = "raises"
       THEN Parsed(<<>>)
       ELSE Parsed(FirstN(SelectSeq(items, LAMBDA a : ValidateAction(a) = "valid"),
                          max_changes))

\* f"{utilization:.1%}" as an integer number of tenths of a percent; a tie is
\* rounded to the even digit
UtilizationPct(enrolled, capacity) ==
  IF capacity > 0
  THEN LET q == (1000 * enrolled) \div capacity
           r == (1000 * enrolled) % capacity
       IN IF 2 * r < capacity THEN q
          ELSE IF 2 * r > capacity THEN q + 1
          ELSE IF q % 2 = 0 THEN q ELSE q + 1
  ELSE 0

\* create_registrar_summary, the part decide_actions reads
CreateRegistrarSummary(sections_df, e) ==
  LET Info(section) ==
        [section_id |-> section.id,
         course |-> section.course,
         utilization |-> UtilizationPct(Enrolled(e, section.id), section.cap),
         enrolled |-> Enrolled(e, section.id),
         capacity |-> section.cap]
      problem == SelectSeq(sections_df,
                           LAMBDA section : UnderTarget(section, e) \/ OverTarget(section, e))
  IN [problem_sections |-> [k \in 1..Len(problem) |-> Info(problem[k])]]

Heuristic(list) == [raised |-> FALSE, actions |-> list]
ZeroDivisionError == [raised |-> TRUE, actions |-> <<>>]

\* _heuristic_decisions: one action per course, in the order of the problem
\* sections; raised is TRUE where the Python divides by a zero average capacity
HeuristicDecisions(summary_stats, max_changes) ==
  LET problem_sections == summary_stats.problem_sections
      course_sections(course) ==
        SelectSeq(problem_sections, LAMBDA s : s.course = course)
      already_planned(acts, a, b) ==
        \E m \in 1..Len(acts) :
          /\ acts[m].action = "MERGE"
          /\ {acts[m].section_ids[1], acts[m].section_ids[2]} \cap {a, b} # {}
      RECURSIVE Sections(_, _, _), Partners(_, _, _, _, _)
      \* the loop over partners: the new list of actions, or the raise
      Partners(section, partners, j, acts, course_actions) ==
        IF j > Len(partners) THEN [raised |-> FALSE, acts |-> acts, done |-> course_actions]
        ELSE LET partner == partners[j]
                 combined_enrollment == section.enrolled + partner.enrolled
                 twice_avg_capacity == section.capacity + partner.capacity
             IN
             IF 20 * combined_enrollment <= 13 * twice_avg_capacity
                /\ ~already_planned(acts, section.section_id, partner.section_id)
             THEN IF twice_avg_capacity = 0
                  THEN [raised |-> TRUE, acts |-> acts, done |-> course_actions]
                  ELSE IF /\ MinTargetPct * twice_avg_capacity <= 200 * combined_enrollment
                          /\ 200 * combined_enrollment <= MaxTargetPct * twice_avg_capacity
                       THEN [raised |-> FALSE,
                             acts |-> Append(acts, Merge(section.section_id, partner.section_id)),
                             done |-> course_actions \cup {section.course}]
                       ELSE Partners(section, partners, j + 1, acts, course_actions)
             ELSE Partners(section, partners, j + 1, acts, course_actions)
      Sections(k, acts, course_actions) ==
        IF k > Len(problem_sections) THEN Heuristic(FirstN(acts, max_changes))
        ELSE
        LET section == problem_sections[k]
            course == section.course
            util_pct == section.utilization
            enrolled == section.enrolled
            capacity == section.capacity
        IN
        IF course \in course_actions THEN Sections(k + 1, acts, course_actions)
        ELSE IF util_pct > 10 * MaxTargetPct /\ Len(acts) < max_changes
        THEN IF util_pct > AddThresholdTenths
             THEN Sections(k + 1, Append(acts, Add(course)), course_actions \cup {course})
             ELSE IF util_pct > SplitThresholdTenths
             THEN IF 10 * enrolled >= 6 * capacity /\ 10 * capacity >= 8 * capacity
                  THEN Sections(k + 1, Append(acts, Split(section.section_id)),
                                course_actions \cup {course})
                  ELSE Sections(k + 1, Append(acts, Add(course)), course_actions \cup {course})
             ELSE Sections(k + 1, acts, course_actions)
        ELSE IF util_pct < 10 * MinTargetPct /\ Len(acts) < max_changes
        THEN LET partners ==
                   SelectSeq(course_sections(course),
                             LAMBDA s : /\ s.section_id # section.section_id
                                        /\ s.utilization < 10 * MinTargetPct)
             IN
             IF partners # <<>>
             THEN LET scan == Partners(section, partners, 1, acts, course_actions) IN
                  IF scan.raised THEN ZeroDivisionError
                  ELSE Sections(k + 1, scan.acts, scan.done)
             ELSE IF util_pct < RemoveBelowTenths \/ Len(course_sections(course)) = 1
                  THEN Sections(k + 1, Append(acts, Remove(section.section_id)),
                                course_actions \cup {course})
                  ELSE Sections(k + 1, acts, course_actions)
        ELSE Sections(k + 1, acts, course_actions)
  IN Sections(1, <<>>, {})

\* Schedules the analyzer summarises for the registrar: a roster with the
\* enrollment the MILP gave it
OracleCases ==
  { [sections_df |-> << Section(Sid(1), "Math", "T1", 3) >>,
     e |-> (Sid(1) :> 4)],
    [sections_df |-> << Section(Sid(1), "Math", "T1", 4) >>,
     e |-> (Sid(1) :> 5)],
    [sections_df |-> << Section(Sid(1), "Math", "T1", 4) >>,
     e |-> (Sid(1) :> 1)],
    [sections_df |-> << Section(Sid(1), "Math", "T1", 4),
                        Section(Sid(2), "Math", "T1", 4) >>,
     e |-> (Sid(1) :> 1) @@ (Sid(2) :> 2)],
    [sections_df |-> << Section(Sid(1), "Math", "T1", 4),
                        Section(Sid(3), "Art", "T2", 4) >>,
     e |-> (Sid(1) :> 5) @@ (Sid(3) :> 1)],
    [sections_df |-> << Section(Sid(1), "Math", "T1", 5) >>,
     e |-> (Sid(1) :> 6)],
    [sections_df |-> << Section(Sid(1), "Math", "T1", 30) >>,
     e |-> (Sid(1) :> 40)],
    [sections_df |-> << Section(Sid(1), "Math", "T1", 40),
                        Section(Sid(2), "Math", "T1", 10) >>,
     e |-> (Sid(1) :> 20) @@ (Sid(2) :> 5)],
    [sections_df |-> << Section(Sid(1), "Math", "T1", 0),
                        Section(IdB(Sid(1)), "Math", "T1", 0),
                        Section(IdB(IdB(Sid(1))), "Math", "T1", 1) >>,
     e |-> (IdB(IdB(Sid(1))) :> 1)] }

\* what _call_gemini_api and _extract_response_text can do
CallOutcomes == {"text", "status_not_200", "request_exception", "no_candidates", "no_parts"}

InitOracle ==
  /\ runIdle
  /\ applyIdle
  /\ milpIdle
  /\ summaryIdle
  /\ \E c \in OracleCases, call \in CallOutcomes, fallback \in BOOLEAN,
        max_changes \in {1, MaxChangesDefault} :
       \E response \in (IF call = "text" THEN ResponseTexts ELSE {NotJson}) :
         orc = [state |-> "called",
                summary_stats |-> CreateRegistrarSummary(c.sections_df, c.e),
                call |-> call,
                response_text |-> response,
                allow_heuristic_fallback |-> fallback,
                max_changes |-> max_changes,
                heuristic |-> FALSE,
                result |-> <<>>]

\* the try block ran through: the parsed actions are returned
DecideReturnsParsed ==
  /\ orc # <<>>
  /\ orc.state = "called"
  /\ orc.call = "text"
  /\ LET parsed == ParseActions(orc.response_text, orc.max_changes) IN
     IF parsed.raised
     THEN IF orc.allow_heuristic_fallback
          THEN LET h == HeuristicDecisions(orc.summary_stats, orc.max_changes) IN
               orc' = [orc EXCEPT !.state = IF h.raised THEN "raised" ELSE "returned",
                                  !.heuristic = TRUE,
                                  !.result = h.actions]
          ELSE orc' = [orc EXCEPT !.state = "raised"]
     ELSE orc' = [orc EXCEPT !.state = "returned", !.result = parsed.actions]
  /\ UNCHANGED <<runVars, applyVars, milpVars, summaryVars>>

\* the call failed and the fallback is allowed
DecideFallsBack ==
  /\ orc # <<>>
  /\ orc.state = "called"
  /\ orc.call # "text"
  /\ orc.allow_heuristic_fallback
  /\ LET h == HeuristicDecisions(orc.summary_stats, orc.max_changes) IN
     orc' = [orc EXCEPT !.state = IF h.raised THEN "raised" ELSE "returned",
                        !.heuristic = TRUE,
                        !.result = h.actions]
  /\ UNCHANGED <<runVars, applyVars, milpVars, summaryVars>>

\* the call failed and the fallback is not allowed: raise e
DecidePropagates ==
  /\ orc # <<>>
  /\ orc.state = "called"
  /\ orc.call # "text"
  /\ ~orc.allow_heuristic_fallback
  /\ orc' = [orc EXCEPT !.state = "raised"]
  /\ UNCHANGED <<runVars, applyVars, milpVars, summaryVars>>

NextOracle == DecideReturnsParsed \/ DecideFallsBack \/ DecidePropagates
SpecOracle == InitOracle /\ [][NextOracle]_vars

\* ----------------------------------------------- claims on decide_actions
Decided == orc # <<>> /\ orc.state # "called"
CallFailed == orc # <<>> /\ orc.call # "text"

\* C11: when the oracle call itself fails, decide_actions returns the
\* heuristic's actions for the summary if the fallback is allowed, without
\* raising, and raises if the fallback is not allowed.
C11_FailedCallFallsBackOrPropagates ==
  (Decided /\ CallFailed) =>
     IF orc.allow_heuristic_fallback
     THEN /\ orc.state = "returned"
          /\ orc.heuristic
          /\ orc.result = HeuristicDecisions(orc.summary_stats, orc.max_changes).actions
     ELSE orc.state = "raised"

\* C12: when the response text is not valid JSON, decide_actions returns the
\* heuristic's actions for the summary rather than an empty list.
C12_InvalidJsonGetsHeuristic ==
  (Decided /\ orc.call = "text" /\ ~orc.response_text.json) =>
     /\ orc.state = "returned"
     /\ orc.heuristic
     /\ orc.result = HeuristicDecisions(orc.summary_stats, orc.max_changes).actions

\* C13: whatever the response text is, parsing never raises to the caller of
\* decide_actions: the call returns a list of the response's items that is
\* no longer than the response.
C13_ParsingNeverRaises ==
  (Decided /\ orc.call = "text") =>
     /\ orc.state = "returned"
     /\ ~orc.heuristic
     /\ Len(orc.result) <= Len(orc.response_text.items)
     /\ \A k \in 1..Len(orc.result) :
          \E j \in 1..Len(orc.response_text.items) :
            orc.result[k] = orc.response_text.items[j]

C13_NonObjectItemGivesList ==
  /\ Decided
  /\ orc.call = "text"
  /\ orc.response_text.is_list
  /\ \E j \in 1..Len(orc.response_text.items) :
       orc.response_text.items[j].kind # "object"
  /\ orc.state = "returned"
  /\ orc.result = <<>>

\* the requirements the specification puts on one item
CarriesRequiredFields(item) ==
  /\ item.kind = "object"
  /\ "action" \in DOMAIN item.fields
  /\ "reason" \in DOMAIN item.fields
  /\ CASE item.fields["action"] \in {"SPLIT", "REMOVE"} ->
            "section_id" \in DOMAIN item.fields
       [] item.fields["action"] = "ADD" -> "course" \in DOMAIN item.fields
       [] item.fields["action"] = "MERGE" ->
            /\ "section_ids" \in DOMAIN item.fields
            /\ item.fields["section_ids"].type = "list"
            /\ Len(item.fields["section_ids"].ids) = 2
       [] OTHER -> FALSE

\* C14: for a response that is a JSON list, the returned list is exactly the
\* items carrying the required fields, in their order, cut to max_changes.
C14_ReturnsExactlyTheValidItems ==
  (Decided /\ orc.call = "text" /\ orc.response_text.is_list) =>
     /\ orc.state = "returned"
     /\ orc.result = FirstN(SelectSeq(orc.response_text.items, CarriesRequiredFields),
                            orc.max_changes)

\* ------------------------------------------------ claims on apply_actions
TotalCapacity(r) ==
  LET RECURSIVE Sum(_)
      Sum(k) == IF k = 0 THEN 0 ELSE r[k].cap + Sum(k - 1)
  IN Sum(Len(r))
StatusOf(res) == IF res.error THEN "error" ELSE IF res.success THEN "success" ELSE "failed"

\* C15: apply_actions processes every action in the order received, whether
\* or not earlier ones failed or raised; in the returned log actions_applied
\* + actions_failed = actions_requested = the number of details, and the
\* k-th detail records the k-th action with its outcome.
C15_EveryActionProcessedAndLogged ==
  ApplyReturned =>
    /\ ap.log.actions_requested = Len(ap.actions)
    /\ Len(ap.log.details) = ap.log.actions_requested
    /\ Len(ap.log.trail) = Len(ap.actions) + 1
    /\ ap.log.actions_applied + ap.log.actions_failed = ap.log.actions_requested
    /\ ap.log.actions_applied =
         Cardinality({k \in 1..Len(ap.log.details) : ap.log.details[k].status = "success"})
    /\ \A k \in 1..Len(ap.actions) :
         LET res == ApplyOne(RosterBefore(k), ap.actions[k], ap.enrollment_counts) IN
         /\ ap.log.details[k].action = ap.actions[k]
         /\ ap.log.details[k].status = StatusOf(res)
         /\ RosterAfter(k) = res.roster

C15_SuccessAfterFailureAndError ==
  /\ ApplyReturned
  /\ Len(ap.actions) = 2
  /\ ap.log.details[1].status \in {"failed", "error"}
  /\ ap.log.details[2].status = "success"
  /\ ap.log.actions_applied = 1
  /\ ap.log.actions_failed = 1

IsSplit(a) == a.action = "SPLIT" /\ "section_id" \in DOMAIN a

\* C16: a successful SPLIT(id) of a section of capacity c leaves id with
\* floor(c/2), appends one section id_B with c - floor(c/2) and the same
\* course and teacher, keeps the total capacity and every other section;
\* SPLIT of an id that is not in the roster fails and leaves the roster.
C16_SplitHalvesOneSection ==
  ApplyReturned =>
    \A k \in 1..Len(ap.actions) :
       LET a == ap.actions[k]
           before == RosterBefore(k)
           after == RosterAfter(k)
       IN
       IsSplit(a) =>
         IF HasId(before, a.section_id)
         THEN LET at == FirstIndex(before, a.section_id)
                  c == before[at].cap
              IN
              /\ ap.log.details[k].status = "success"
              /\ Len(after) = Len(before) + 1
              /\ after[at] = [before[at] EXCEPT !.cap = c \div 2]
              /\ after[Len(after)] = [before[at] EXCEPT !.id = IdB(a.section_id),
                                                        !.cap = c - (c \div 2)]
              /\ TotalCapacity(after) = TotalCapacity(before)
              /\ \A j \in 1..Len(before) : j # at => after[j] = before[j]
         ELSE /\ ap.log.details[k].status = "failed"
              /\ after = before

\* C17: a MERGE of two section ids that succeeds leaves the first section in
\* the roster with capacity max(cap a, cap b, enrollment a + enrollment b + 5),
\* removes the second, leaves exactly one section fewer and every other
\* section as it was.
C17_MergeKeepsFirstDropsSecond ==
  ApplyReturned =>
    \A k \in 1..Len(ap.actions) :
       LET a == ap.actions[k]
           before == RosterBefore(k)
           after == RosterAfter(k)
       IN
       (a.action = "MERGE" /\ ap.log.details[k].status = "success") =>
         LET first == a.section_ids[1]
             second == a.section_ids[2]
             Others(r) == WithoutId(WithoutId(r, first), second)
         IN
         /\ HasId(after, first)
         /\ FirstWithId(after, first).cap =
              Max2(Max2(FirstWithId(before, first).cap, FirstWithId(before, second).cap),
                   Enrolled(ap.enrollment_counts, first)
                   + Enrolled(ap.enrollment_counts, second) + MergeBuffer)
         /\ ~HasId(after, second)
         /\ Len(after) = Len(before) - 1
         /\ Others(after) = Others(before)

\* C18: a successful ADD(course) appends exactly one section, a copy of the
\* first section of that course under an id that no section of the roster
\* had; ADD for a course without a section fails and leaves the roster.
C18_AddAppendsOneFreshCopy ==
  ApplyReturned =>
    \A k \in 1..Len(ap.actions) :
       LET a == ap.actions[k]
           before == RosterBefore(k)
           after == RosterAfter(k)
       IN
       a.action = "ADD" =>
         IF OfCourse(before, a.course) = <<>>
         THEN /\ ap.log.details[k].status = "failed"
              /\ after = before
         ELSE ap.log.details[k].status = "success" =>
              /\ Len(after) = Len(before) + 1
              /\ SubSeq(after, 1, Len(before)) = before
              /\ after[Len(after)].id \notin Ids(before)
              /\ after[Len(after)] =
                   [OfCourse(before, a.course)[1] EXCEPT !.id = after[Len(after)].id]

C18_AddTookTheRetryId ==
  /\ ApplyReturned
  /\ \E k \in 1..Len(ap.actions) :
       /\ ap.actions[k].action = "ADD"
       /\ ap.log.details[k].status = "success"
       /\ Sid(Len(RosterBefore(k)) + 1) \in Ids(RosterBefore(k))
       /\ RosterAfter(k)[Len(RosterAfter(k))].id \notin Ids(RosterBefore(k))

\* ------------------------------------------------ claims on the MILP, II
UnavailablePeriods(in, teacher_id) ==
  IF teacher_id \in DOMAIN in.teacher_unavailability
  THEN in.teacher_unavailability[teacher_id]
  ELSE {}

\* C21: in every saved solution no section is scheduled in a period that
\* the teacher-unavailability input lists for the section's teacher.
C21_NoSectionInUnavailablePeriod ==
  Saved =>
    \A k \in sol.master_schedule :
       k[2] \notin UnavailablePeriods(inst, FirstWithId(inst.sections, k[1]).teacher)

\* ------------------------------------------------ claims on the run, II
\* C22: when the solver ends without a solution the four output files are
\* still written, and the run goes on to the next iteration instead of
\* ending the loop.
C22_NoSolutionWritesFilesAndContinues ==
  \A j \in 1..Len(hist) :
     hist[j].milp = "failed" =>
       /\ hist[j].files
       /\ stop # "milp_failed"

\* ------------------------------------------- create_registrar_summary, II
\* Student_Assignments.csv is a set of <<student, section>> rows;
\* value_counts of its Section ID column
ValueCounts(student_assignments) ==
  [id \in {k[2] : k \in student_assignments} |->
     Cardinality({k \in student_assignments : k[2] = id})]

SummaryNamingStudents(sections_df, student_assignments) ==
  [problem_sections |->
     CreateRegistrarSummary(sections_df, ValueCounts(student_assignments)).problem_sections,
   students |-> {k[1] : k \in student_assignments}]

\* the registrar summary as create_registrar_summary builds it from the
\* files of one iteration
RegistrarSummary(sections_df, student_assignments) ==
  LET enrollment_counts == ValueCounts(student_assignments)
      analysis == AnalyzeSchedule(sections_df, enrollment_counts)
      courses == {sections_df[k].course : k \in 1..Len(sections_df)}
      Context(course) ==
        LET secs == OfCourse(sections_df, course) IN
        [sections |-> [k \in 1..Len(secs) |->
                         [section_id |-> secs[k].id,
                          utilization |-> UtilizationPct(Enrolled(enrollment_counts, secs[k].id),
                                                         secs[k].cap),
                          enrolled |-> Enrolled(enrollment_counts, secs[k].id),
                          capacity |-> secs[k].cap]],
         section_count |-> Len(secs),
         teachers_assigned |-> {secs[k].teacher : k \in 1..Len(secs)}]
  IN [summary_stats |->
        [total_sections |-> analysis.total_sections,
         total_students |-> Cardinality(student_assignments),
         sections_needing_action |-> analysis.under_target + analysis.over_target,
         sections_under_target |-> analysis.under_target,
         sections_optimal |-> analysis.optimal_range,
         sections_over_target |-> analysis.over_target],
      problem_sections |->
        CreateRegistrarSummary(sections_df, enrollment_counts).problem_sections,
      course_context |-> [c \in courses |-> Context(c)]]

\* the Student_Assignments.csv files a solve can leave for a roster
AssignmentTables(sections_df) == SUBSET ((1..MaxStudents) \X Ids(sections_df))

InitSummary ==
  /\ runIdle
  /\ applyIdle
  /\ milpIdle
  /\ oracleIdle
  /\ \E r \in BaseRosters :
       \E a1 \in AssignmentTables(r), a2 \in AssignmentTables(r) :
          sm = [state |-> "called", sections_df |-> r,
                first |-> a1, second |-> a2,
                first_summary |-> <<>>, second_summary |-> <<>>]

\* create_registrar_summary run on each of the two outputs
CreateSummaries ==
  /\ sm # <<>>
  /\ sm.state = "called"
  /\ sm' = [sm EXCEPT !.state = "returned",
                      !.first_summary = RegistrarSummary(sm.sections_df, sm.first),
                      !.second_summary = RegistrarSummary(sm.sections_df, sm.second)]
  /\ UNCHANGED <<runVars, applyVars, milpVars, oracleVars>>

NextSummary == CreateSummaries
SpecSummary == InitSummary /\ [][NextSummary]_vars

\* C23: two solver outputs with the same number of students in every
\* section give the same registrar summary, whoever the students are.
C23_SummaryDependsOnCountsOnly ==
  (sm # <<>> /\ sm.state = "returned"
     /\ ValueCounts(sm.first) = ValueCounts(sm.second)) =>
       sm.first_summary = sm.second_summary

C23_OtherStudentsSameSummary ==
  /\ sm # <<>>
  /\ sm.state = "returned"
  /\ sm.first # sm.second
  /\ {k[1] : k \in sm.first} # {k[1] : k \in sm.second}
  /\ ValueCounts(sm.first) = ValueCounts(sm.second)
  /\ sm.first_summary.problem_sections # <<>>
  /\ sm.first_summary = sm.second_summary

\* ------------------------------------------- claims on the heuristic rules
HeuristicReturned == Decided /\ orc.state = "returned" /\ orc.heuristic
ProblemSections == orc.summary_stats.problem_sections
\* the first listed problem section of its course
FirstOfCourse(k) ==
  \A j \in 1..(k - 1) : ProblemSections[j].course # ProblemSections[k].course
InResult(a) == \E m \in 1..Len(orc.result) : orc.result[m] = a

\* C24: for every course whose first listed problem section is above 110%
\* (fewer than max_changes actions chosen), the heuristic's list holds a
\* SPLIT of that section or an ADD for that course.
C24_OverTargetGetsSplitOrAdd ==
  (HeuristicReturned /\ Len(orc.result) < orc.max_changes) =>
    \A k \in 1..Len(ProblemSections) :
       (FirstOfCourse(k) /\ ProblemSections[k].utilization > 10 * MaxTargetPct) =>
          \/ InResult(Split(ProblemSections[k].section_id))
          \/ InResult(Add(ProblemSections[k].course))

\* C25: for an over-target section the heuristic chooses SPLIT, and ADD only
\* when half the enrollment is below 30% of the capacity; capacity 30 with
\* 40 enrolled gives a SPLIT.
C25_SplitUnlessHalvesTooSmall ==
  (HeuristicReturned /\ Len(orc.result) < orc.max_changes) =>
    \A k \in 1..Len(ProblemSections) :
       LET section == ProblemSections[k] IN
       (FirstOfCourse(k) /\ section.utilization > 10 * MaxTargetPct) =>
          IF 10 * section.enrolled < 6 * section.capacity
          THEN InResult(Add(section.course))
          ELSE InResult(Split(section.section_id))

ListedUnderTarget(id) ==
  \E k \in 1..Len(ProblemSections) :
     /\ ProblemSections[k].section_id = id
     /\ 100 * ProblemSections[k].enrolled < MinTargetPct * ProblemSections[k].capacity
Listed(id) ==
  ProblemSections[CHOOSE k \in 1..Len(ProblemSections) : ProblemSections[k].section_id = id]

\* C26: every MERGE(a, b) of the heuristic names two distinct sections of one
\* course, both under 70%, and the merged section is inside the band:
\* (enrollment a + enrollment b) / max(cap a, cap b, combined + 5) lies in
\* [0.70, 1.10].
C26_MergeEndsInsideBand ==
  HeuristicReturned =>
    \A m \in 1..Len(orc.result) :
       orc.result[m].action = "MERGE" =>
         LET a == orc.result[m].section_ids[1]
             b == orc.result[m].section_ids[2]
         IN
         /\ a # b
         /\ ListedUnderTarget(a)
         /\ ListedUnderTarget(b)
         /\ Listed(a).course = Listed(b).course
         /\ LET combined == Listed(a).enrolled + Listed(b).enrolled
                merged == Max2(Max2(Listed(a).capacity, Listed(b).capacity),
                               combined + MergeBuffer)
            IN /\ MinTargetPct * merged <= 100 * combined
               /\ 100 * combined <= MaxTargetPct * merged

\* --------------------------------------------- claims on apply_actions, II
\* C27: from a roster whose Section IDs are pairwise distinct, the roster
\* apply_actions returns has pairwise distinct Section IDs.
C27_IdsStayDistinct ==
  (ApplyReturned /\ Distinct(ap.sections_df)) => Distinct(ap.log.modified_sections)

\* C29: every action counted in actions_applied changed the roster; an
\* action that leaves the roster as it was is counted in actions_failed.
C29_AppliedActionsChangeRoster ==
  ApplyReturned =>
    \A k \in 1..Len(ap.actions) :
       ap.log.details[k].status = "success" => RosterAfter(k) # RosterBefore(k)

\* C30: apply_actions terminates for every roster and every list of
\* actions: the id loop of ADD always ends.
C30_ApplyActionsTerminates ==
  ap # <<>> => ap.state # "hung"

\* C28: when the loop stops because an iteration has every section inside
\* the target band, the iteration returned as best_iteration and copied to
\* the final output has every section inside the target band too.
C28_ConvergedRunReturnsInBandSchedule ==
  (Returned /\ stop = "converged") =>
     /\ ~OutsideBand(ret.best_iteration + 1)
     /\ final = [copied |-> TRUE, enroll |-> hist[ret.best_iteration + 1].enroll]

====
